---- MODULE Spec2Model ----
(***************************************************************************)
(* Model of the OCR text-to-records engine of image-scanner:               *)
(* DocextClient.extractProductData and DocextClient.parseProductsFromText  *)
(* (src/src/lib/docextClient.ts, the variant at lines 259-459).            *)
(*                                                                         *)
(* Strings are TLA+ strings; a character is a string of length one.  The   *)
(* input alphabet is ASCII: letters, digits, punctuation and the           *)
(* whitespace characters space, \t, \r, \n, \f and the vertical tab.  A    *)
(* TLA+ string holds no character beyond ASCII, so the two bullets the     *)
(* code removes from a row name, U+2022 and U+00B7, are written as the     *)
(* characters U+0001 and U+0002, which the code treats as it treats a      *)
(* bullet everywhere else (no letter, digit, word character or space) and  *)
(* which are no input characters of their own.  The spaces beyond ASCII    *)
(* (U+00A0, U+2028, U+FEFF ...) are not in the alphabet.                   *)
(***************************************************************************)
EXTENDS Integers, Sequences, FiniteSets, TLC

VARIABLES
    ocr,        \* what the OCR boundary answers to this invocation
    pc,         \* position of the extractProductData invocation
    startTime,  \* const startTime = Date.now()
    now,        \* the last value Date.now() returned
    lines,      \* const lines (parseProductsFromText)
    i,          \* loop index of the main loop, 1-based
    upcs,       \* const upcs: string[]
    skus,       \* const skus: string[]
    names,      \* const names: string[]
    products,   \* const products: ExtractedProduct[]
    parsed,     \* the value parseProductsFromText returned
    response,   \* the value the promise of extractProductData resolved to
    calls,      \* the invocations of extractProductData on the shared docextClient
    selectedFile,       \* App: useState<File | null>(null)
    extractedProducts,  \* App: useState<ExtractedProduct[]>([])
    isProcessing,       \* App: useState(false)
    showManualEntry,    \* App: useState(false)
    extractionMeta,     \* App: useState<{ confidence?, processingTime? }>({})
    handlers,           \* App: the invocations of handleFileSelect
    lastSettled         \* history: the invocation whose extraction settled in the last step, or 0

\* the state of the host of the engine: concurrent invocations and the App component
hostVars == <<calls, selectedFile, extractedProducts, isProcessing, showManualEntry,
              extractionMeta, handlers, lastSettled>>

vars == <<ocr, pc, startTime, now, lines, i, upcs, skus, names, products,
          parsed, response, hostVars>>

-----------------------------------------------------------------------------
(* Bounds of the model *)

\* longest document drawn freely from LinePool, in lines
MaxLines == 2
\* the long documents have MaxRecords .. MaxRecords + CapExtra lines
CapExtra == 1
\* Date.now() advances by at most this much between two reads
MaxElapsed == 1
\* every line over ShortAlphabet of at most this many characters is a document
ShortLen == 4

-----------------------------------------------------------------------------
(* Characters and JavaScript string primitives *)

At(s, k) == SubSeq(s, k, k)

Min(a, b) == IF a <= b THEN a ELSE b
Max(a, b) == IF a >= b THEN a ELSE b

LowerAlpha == "abcdefghijklmnopqrstuvwxyz"
UpperAlpha == "ABCDEFGHIJKLMNOPQRSTUVWXYZ"
DigitAlpha == "0123456789"

LowerChars == {At(LowerAlpha, k) : k \in 1..Len(LowerAlpha)}
UpperChars == {At(UpperAlpha, k) : k \in 1..Len(UpperAlpha)}
DigitChars == {At(DigitAlpha, k) : k \in 1..Len(DigitAlpha)}
LetterChars == LowerChars \cup UpperChars
\* \w of a JavaScript regular expression without the u flag
WordChars == LetterChars \cup DigitChars \cup {"_"}
\* U+000B, the vertical tab
VerticalTab == ""
\* \s and String.prototype.trim, restricted to the ASCII alphabet
SpaceChars == {" ", "\t", "\n", "\r", "\f", VerticalTab}
\* U+2022 (bullet) and U+00B7 (middle dot), written as U+0001 and U+0002
Bullet == ""
MiddleDot == ""
BulletChars == {Bullet, MiddleDot}

AllIn(s, S) == \A k \in 1..Len(s) : At(s, k) \in S

upperOf == [c \in LowerChars |->
              At(UpperAlpha, CHOOSE k \in 1..Len(LowerAlpha) : At(LowerAlpha, k) = c)]

RECURSIVE toUpperCase(_)
toUpperCase(s) ==
    IF Len(s) = 0 THEN ""
    ELSE (IF At(s, 1) \in LowerChars THEN upperOf[At(s, 1)] ELSE At(s, 1))
         \o toUpperCase(SubSeq(s, 2, Len(s)))

startsWith(s, t) == Len(t) <= Len(s) /\ SubSeq(s, 1, Len(t)) = t
endsWith(s, t) == Len(t) <= Len(s) /\ SubSeq(s, Len(s) - Len(t) + 1, Len(s)) = t

\* String.prototype.indexOf, 1-based; 0 when t does not occur in s
indexOf(s, t) ==
    IF \E k \in 1..(Len(s) - Len(t) + 1) : SubSeq(s, k, k + Len(t) - 1) = t
    THEN CHOOSE k \in 1..(Len(s) - Len(t) + 1) :
            /\ SubSeq(s, k, k + Len(t) - 1) = t
            /\ \A j \in 1..(k - 1) : SubSeq(s, j, j + Len(t) - 1) # t
    ELSE 0

includes(s, t) == Len(t) = 0 \/ indexOf(s, t) > 0

\* String.prototype.trim
trim(s) ==
    IF AllIn(s, SpaceChars) THEN ""
    ELSE LET a == CHOOSE k \in 1..Len(s) :
                      At(s, k) \notin SpaceChars /\ AllIn(SubSeq(s, 1, k - 1), SpaceChars)
             b == CHOOSE k \in 1..Len(s) :
                      At(s, k) \notin SpaceChars /\ AllIn(SubSeq(s, k + 1, Len(s)), SpaceChars)
         IN SubSeq(s, a, b)

\* s.replace(t, '') with a string pattern: the first occurrence of t is removed
replaceFirst(s, t) ==
    IF Len(t) = 0 \/ indexOf(s, t) = 0 THEN s
    ELSE SubSeq(s, 1, indexOf(s, t) - 1) \o SubSeq(s, indexOf(s, t) + Len(t), Len(s))

\* length of the longest prefix of SubSeq(s, k, Len(s)) made of characters of S
runLen(s, k, S) ==
    CHOOSE n \in 0..(Len(s) - k + 1) :
        /\ (k + n > Len(s) \/ At(s, k + n) \notin S)
        /\ \A j \in k..(k + n - 1) : At(s, j) \in S

\* /[S]{n,}/.test(s)
hasRun(s, S, n) == \E k \in 1..(Len(s) - n + 1) : AllIn(SubSeq(s, k, k + n - 1), S)

\* text.split(/\r?\n/): the pieces between the line feeds, each without the
\* carriage return that stands right before its line feed
split(text) ==
    LET feeds == {k \in 1..Len(text) : At(text, k) = "\n"}
        n == Cardinality(feeds)
        \* position of the j-th line feed; the ends of the text for j = 0 and j = n + 1
        rank == [k \in feeds |-> Cardinality({m \in feeds : m <= k})]
        pos == [j \in 0..(n + 1) |->
                  IF j = 0 THEN 0
                  ELSE IF j = n + 1 THEN Len(text) + 1
                  ELSE CHOOSE k \in feeds : rank[k] = j]
        piece == [j \in 1..(n + 1) |-> SubSeq(text, pos[j - 1] + 1, pos[j] - 1)]
    IN [j \in 1..(n + 1) |->
          IF j <= n /\ endsWith(piece[j], "\r")
          THEN SubSeq(piece[j], 1, Len(piece[j]) - 1)
          ELSE piece[j]]

\* name.replace(/\s+/g, ' ')
RECURSIVE collapseSpaces(_)
collapseSpaces(s) ==
    IF Len(s) = 0 THEN ""
    ELSE IF At(s, 1) \in SpaceChars
         THEN " " \o collapseSpaces(SubSeq(s, 1 + runLen(s, 1, SpaceChars), Len(s)))
         ELSE At(s, 1) \o collapseSpaces(SubSeq(s, 2, Len(s)))

\* name.replace(/^\d+\s+/, '')
stripLeadingIndex(s) ==
    LET d == runLen(s, 1, DigitChars)
        w == runLen(s, d + 1, SpaceChars)
    IN IF d >= 1 /\ w >= 1 THEN SubSeq(s, d + w + 1, Len(s)) ELSE s

\* the maximal runs of word characters of s from position k on, left to right
RECURSIVE wordRuns(_, _)
wordRuns(s, k) ==
    IF k > Len(s) THEN <<>>
    ELSE IF At(s, k) \notin WordChars THEN wordRuns(s, k + 1)
    ELSE LET n == runLen(s, k, WordChars)
         IN <<SubSeq(s, k, k + n - 1)>> \o wordRuns(s, k + n)

-----------------------------------------------------------------------------
(* The pattern model of parseProductsFromText *)

\* /^(14\d{9,11}|12\d{9,11}|11\d{9,11})$/.test(s)
skuPattern(s) ==
    /\ AllIn(s, DigitChars)
    /\ Len(s) \in 11..13
    /\ SubSeq(s, 1, 2) \in {"14", "12", "11"}

\* /^(\d{12,14})$/.test(s)
upcPattern(s) == AllIn(s, DigitChars) /\ Len(s) \in 12..14

skipWords ==
    { "CHANGE", "LOC ID", "SKU NO", "UPC", "NAME", "SHELF", "DEPTH", "DEPH", "NOF",
      "TIER", "NOTCH", "GONDOLA", "GONDOL", "CATEGORY", "DEPARTMENT", "EPARTMENT",
      "VIEW BY", "ELEMENT", "STORE", "STORE NA", "HYPERMARKET", "HYPERMA", "STO", "HYP",
      "LOCATION", "BRAND", "PAPER", "LOW BUD", "BUD", "PARTMENT", "ARTMENT",
      "BREAKFAST", "SEASONING", "ADULT MILK", "TOILETRIES", "HYGIENE",
      "NEW ITEM", "LISTING", "SUMMARY", "DISCONTINUE", "CLEARANCE", "PLAN",
      "BABY AND KIDS", "MAX QTY", "PIXEL", "FIXEL", "PRODUCT_ID", "PRODUCT ID",
      "NOTCH_POSITION", "NOTCH POSITION", "BABY MILK POWDER", "BABY MEAL", "LOC_ID",
      "PIXEL_ID", "FIXEL_ID" }

\* skipWords.some(word => upperLine === word || upperLine.includes(word + ':') ||
\*                        upperLine.startsWith(word + ' ') || upperLine.endsWith(' ' + word))
\* (a line includes word + ':' only if it includes ':', which is tested first)
isHeader(line) ==
    LET upperLine == toUpperCase(line) IN
    \E word \in skipWords :
        \/ upperLine = word
        \/ (includes(upperLine, ":") /\ includes(upperLine, word \o ":"))
        \/ startsWith(upperLine, word \o " ")
        \/ endsWith(upperLine, " " \o word)

\* /^A[_\s]?B/i.test(line) for upper-case words A and B
labelPair(line, a, b) ==
    LET u == toUpperCase(SubSeq(line, 1, Min(Len(line), Len(a) + 1 + Len(b)))) IN
    /\ startsWith(u, a)
    /\ \/ startsWith(SubSeq(u, Len(a) + 1, Len(u)), b)
       \/ /\ Len(u) > Len(a)
          /\ At(u, Len(a) + 1) \in SpaceChars \cup {"_"}
          /\ startsWith(SubSeq(u, Len(a) + 2, Len(u)), b)

\* /^[A-Z]{2,6}:\s*[A-Z\s]+$/.test(line)
labelFragment(line) ==
    LET n == runLen(line, 1, UpperChars)
        rest == SubSeq(line, n + 2, Len(line))
    IN /\ n \in 2..6
       /\ Len(line) > n
       /\ At(line, n + 1) = ":"
       /\ Len(rest) >= 1
       /\ AllIn(rest, UpperChars \cup SpaceChars)

\* skipPatterns.some(pattern => pattern.test(line))
skipPatterns(line) ==
    \/ labelPair(line, "FIXEL", "ID")
    \/ labelPair(line, "PIXEL", "ID")
    \/ labelPair(line, "NOTCH", "POSITION")
    \/ labelPair(line, "LOC", "ID")
    \/ (AllIn(line, DigitChars) /\ Len(line) \in 1..3)                 \* /^\d{1,3}$/
    \/ LET d == runLen(line, 1, DigitChars)                            \* /^\d+\.\d+$/
           frac == SubSeq(line, d + 2, Len(line))
       IN d >= 1 /\ Len(line) > d /\ At(line, d + 1) = "."
          /\ Len(frac) >= 1 /\ AllIn(frac, DigitChars)
    \/ labelFragment(line)

\* line.match(/\b\d{11,14}\b/g) || []
allNumbers(line) ==
    SelectSeq(wordRuns(line, 1), LAMBDA w : AllIn(w, DigitChars) /\ Len(w) \in 11..14)

\* line.match(/\b(14\d{9,11}|12\d{9,11}|11\d{9,11})\b/): <<>> for null, else <<match[0]>>
skuMatch(line) ==
    LET hits == SelectSeq(wordRuns(line, 1), skuPattern)
    IN IF hits = <<>> THEN <<>> ELSE <<hits[1]>>

\* the first numeric token, whether or not it is the SKU
findFirst(numbers, sku) == IF numbers = <<>> THEN "" ELSE numbers[1]

\* allNumbers.find(n => n !== sku) || ''
findUpc(numbers, sku) ==
    LET others == SelectSeq(numbers, LAMBDA n : n # sku)
    IN IF others = <<>> THEN "" ELSE others[1]

\* name.replace(/[bullets]/, ''): the first character of S in s is removed
removeFirstIn(s, S) ==
    IF \E k \in 1..Len(s) : At(s, k) \in S
    THEN LET k == CHOOSE j \in 1..Len(s) :
                     At(s, j) \in S /\ \A m \in 1..(j - 1) : At(s, m) \notin S
         IN SubSeq(s, 1, k - 1) \o SubSeq(s, k + 1, Len(s))
    ELSE s

\* line.replace(sku, '').replace(upc, '') and the clean-up of the name:
\* .replace(/\s+/g, ' ').replace(/^\d+\s+/, '').replace(/[bullets]/, '').trim()
cleanRowName(line, sku, upc) ==
    trim(removeFirstIn(stripLeadingIndex(collapseSpaces(
             replaceFirst(replaceFirst(line, sku), upc))), BulletChars))

\* the row format without the test of the cleaned name
rowFormatAnyName(line) ==
    LET numbers == allNumbers(line)
        match == skuMatch(line)
    IN IF Len(numbers) >= 2 /\ match # <<>>
       THEN LET sku == match[1]
                upc == findUpc(numbers, sku)
            IN <<[productName |-> cleanRowName(line, sku, upc), skuNumber |-> sku, upc |-> upc]>>
       ELSE <<>>

\* the record of the row format: <<>> when the line is not taken as a row, else <<record>>
\* if (allNumbers.length >= 2 && skuMatch) { ... if (name.length > 3 && /[A-Za-z]{3,}/.test(name))
rowFormat(line) ==
    LET numbers == allNumbers(line)
        match == skuMatch(line)
    IN IF Len(numbers) >= 2 /\ match # <<>>
       THEN LET sku == match[1]
                upc == findUpc(numbers, sku)
                name == cleanRowName(line, sku, upc)
            IN IF Len(name) > 3 /\ hasRun(name, LetterChars, 3)
               THEN <<[productName |-> name, skuNumber |-> sku, upc |-> upc]>>
               ELSE <<>>
       ELSE <<>>

isRow(line) == rowFormat(line) # <<>>

rowProduct(line) == rowFormat(line)[1]

\* /^[a-z]{2,6}\d*$/.test(line): the label test without the i flag
labelTokenLower(line) ==
    LET n == runLen(line, 1, LowerChars)
    IN n \in 2..6 /\ AllIn(SubSeq(line, n + 1, Len(line)), DigitChars)

\* /^[a-z]{2,6}\d*$/i.test(line)
labelToken(line) ==
    LET n == runLen(line, 1, LetterChars)
    IN n \in 2..6 /\ AllIn(SubSeq(line, n + 1, Len(line)), DigitChars)

\* the name test reduced to /[A-Za-z]/.test(line), without the two thresholds
isNameAnyLetter(line) ==
    /\ hasRun(line, LetterChars, 1)
    /\ ~labelToken(line)
    /\ ~includes(line, "..")

\* line.length > 5 && /[A-Za-z]{5,}/.test(line) && !/^[a-z]{2,6}\d*$/i.test(line) && !line.includes('..')
isName(line) ==
    /\ Len(line) > 5
    /\ hasRun(line, LetterChars, 5)
    /\ ~labelToken(line)
    /\ ~includes(line, "..")

\* the standalone-UPC test without the SKU exclusion
isAnyUpc(line) == upcPattern(line)

\* if (upcPattern.test(line)) { num = ...; if (num && !skuPattern.test(num)) ...
isStandaloneUpc(line) == upcPattern(line) /\ ~skuPattern(line)

\* if (skuPattern.test(line)) ...
isStandaloneSku(line) == skuPattern(line)

\* the branch of the loop body a line takes; the first test that succeeds decides
branch(line) ==
    IF isHeader(line) THEN "header"
    ELSE IF skipPatterns(line) THEN "pattern"
    ELSE IF isStandaloneUpc(line) THEN "upc"
    ELSE IF isStandaloneSku(line) THEN "sku"
    ELSE IF isRow(line) THEN "row"
    ELSE IF isName(line) THEN "name"
    ELSE "none"

-----------------------------------------------------------------------------
(* Inputs: the recognized texts and the answers of the OCR boundary *)

\* products.slice(0, 100)
MaxRecords == 100

ScenarioA == "CRUNCHY PEANUT BUTTER 12234567890 1234567890123"

\* lines the documents are built from: one or more for every branch of the loop body
LinePool ==
    { "SHELF", "Depth: 12", "17", "abc12",
      "11000000001", "1234567890128", "8801234567890",
      "PEANUT BUTTER", "PEANUT 11000000000",
      ScenarioA,
      "11000000000 SHELF 123456789012" }

\* lines of the long documents, which reach past MaxRecords records
CapLines == { "ABCDEF 1", "11000000001", "8801234567890", "ABCD 11000000000 8801234567890" }

RECURSIVE join(_, _)
join(doc, sep) ==
    IF doc = <<>> THEN ""
    ELSE IF Len(doc) = 1 THEN doc[1]
    ELSE LET h == Len(doc) \div 2
         IN join(SubSeq(doc, 1, h), sep) \o sep \o join(SubSeq(doc, h + 1, Len(doc)), sep)

repeat(line, n) == [k \in 1..n |-> line]

ScenarioB ==
    << "PEANUT BUTTER", "Tomato Soup", "Salted Nuts", "Green Beans", "Olive Oil 1L",
       "11000000001", "11000000002", "12000000003", "14000000004", "1234567890128",
       "8801234567890", "8801234567891", "88012345678902", "8801234567893", "8801234567894" >>

ScenarioTexts ==
    { join(ScenarioB, "\n"),
      join(ScenarioB, "\r\n"),
      "  PEANUT BUTTER \r\n\r\n\t11000000001\n \n8801234567890\r",
      "shelf\n11000000000 shelf 123456789012\nSHELF",
      "AB: CD\n3.1\nLOC_ID 5\nGond..\nTomato Soup",
      "PEANUT BUTTER\n7 Salted Nuts 11000000000 8801234567890\n11000000001\n"
         \o "PEANUT 1100000000001 1200000000002\n8801234567890",
      "11000000000 123456789012\nTUNA 12000000000 11000000000",
      "Ab 1\nTuna\nab1\nChips\nchips\nChipsy\nChips!\n7 Salted Nuts\nSalted  \t Nuts\nOlive..Oil",
      "PEANUT 11000000000 11000000000",
      "OLIVE OIL 11000000000 8801234567890 8801234567891\n"
         \o "AB11000000001C 11000000001 8801234567890",
      "Item: Paper Towels\nTop:SHELF\nPAPER: towels\nUPC: 1",
      "8801234567890 8801234567891\nTomato Soup\n8801234567892",
      VerticalTab \o "11000000001\nABC" \o VerticalTab \o "11000000000 8801234567890",
      Bullet \o "ABC 11000000000 8801234567890\n"
         \o MiddleDot \o " TUNA 11000000000 8801234567890\n"
         \o "7 " \o Bullet \o "SOUP" \o Bullet \o " 11000000001 8801234567891" }

\* characters of the short lines: a letter, a digit and a full stop
ShortAlphabet == {"A", "1", "."}

RECURSIVE wordsUpTo(_)
wordsUpTo(n) ==
    IF n = 0 THEN {""}
    ELSE LET shorter == wordsUpTo(n - 1)
         IN shorter \cup {w \o c : w \in shorter, c \in ShortAlphabet}

\* every non-empty line over ShortAlphabet of at most ShortLen characters
ShortLines == wordsUpTo(ShortLen) \ {""}

Docs == UNION { [1..n -> LinePool] : n \in 0..MaxLines }

Texts ==
    { join(doc, "\n") : doc \in Docs }
    \cup ScenarioTexts
    \cup ShortLines
    \cup { join(repeat(line, n), "\n") :
              line \in CapLines, n \in MaxRecords..(MaxRecords + CapExtra) }

\* a parsed-text block of the OCR answer; ParsedText is <<>> when the field is absent
Blocks == [ParsedText : {<<>>} \cup {<<t>> : t \in Texts}, HasOverlay : BOOLEAN]

\* answers in which the boundary fails
FailedAnswers ==
    { [fetch |-> "reject", json |-> "none", IsErroredOnProcessing |-> FALSE,
       hasParsedResults |-> FALSE, ParsedResults |-> <<>>],
      [fetch |-> "resolve", json |-> "reject", IsErroredOnProcessing |-> FALSE,
       hasParsedResults |-> FALSE, ParsedResults |-> <<>>],
      [fetch |-> "resolve", json |-> "resolve", IsErroredOnProcessing |-> TRUE,
       hasParsedResults |-> FALSE, ParsedResults |-> <<>>],
      [fetch |-> "resolve", json |-> "resolve", IsErroredOnProcessing |-> TRUE,
       hasParsedResults |-> TRUE,
       ParsedResults |-> <<[ParsedText |-> <<"PEANUT BUTTER">>, HasOverlay |-> TRUE]>>],
      [fetch |-> "resolve", json |-> "resolve", IsErroredOnProcessing |-> FALSE,
       hasParsedResults |-> FALSE, ParsedResults |-> <<>>],
      [fetch |-> "resolve", json |-> "resolve", IsErroredOnProcessing |-> FALSE,
       hasParsedResults |-> TRUE, ParsedResults |-> <<>>] }

\* answers with at least one parsed-text block
ParsedAnswers ==
    { [fetch |-> "resolve", json |-> "resolve", IsErroredOnProcessing |-> FALSE,
       hasParsedResults |-> TRUE, ParsedResults |-> <<b>>] : b \in Blocks }

Answers == FailedAnswers \cup ParsedAnswers

\* result.ParsedResults?.[0]?.ParsedText || ''
extractedText == 
    IF ocr.ParsedResults[1].ParsedText = <<>> THEN "" ELSE ocr.ParsedResults[1].ParsedText[1]

\* slice without its end: every element from `from` on
sliceToEnd(arr, from, to) == SubSeq(arr, from + 1, Len(arr))

\* array.slice(from, to), 0-based, to exclusive
slice(arr, from, to) == SubSeq(arr, from + 1, Min(to, Len(arr)))

\* text.split(/\r?\n/).map(line => line.trim()).filter(line => line.length > 0)
segment(text) ==
    LET raw == split(text)
        trimmed == [k \in 1..Len(raw) |-> trim(raw[k])]
    IN SelectSeq(trimmed, LAMBDA l : Len(l) > 0)

\* the zip stopped at the shortest list
zipShortest(ns, ss, us) ==
    [k \in 1..Min(Len(us), Min(Len(ss), Len(ns))) |->
        [productName |-> ns[k], skuNumber |-> ss[k], upc |-> us[k]]]

\* the zip run for i <= maxCount
zipInclusive(ns, ss, us) ==
    [k \in 1..(Max(Len(us), Max(Len(ss), Len(ns))) + 1) |->
        [productName |-> IF k <= Len(ns) THEN ns[k] ELSE "",
         skuNumber   |-> IF k <= Len(ss) THEN ss[k] ELSE "",
         upc         |-> IF k <= Len(us) THEN us[k] ELSE ""]]

\* products.push({ productName: names[i] || '', skuNumber: skus[i] || '', upc: upcs[i] || '' })
\* for i < Math.max(upcs.length, skus.length, names.length)
zipColumns(ns, ss, us) ==
    [k \in 1..Max(Len(us), Max(Len(ss), Len(ns))) |->
        [productName |-> IF k <= Len(ns) THEN ns[k] ELSE "",
         skuNumber   |-> IF k <= Len(ss) THEN ss[k] ELSE "",
         upc         |-> IF k <= Len(us) THEN us[k] ELSE ""]]

-----------------------------------------------------------------------------
(* One invocation of extractProductData *)

NoResponse == [products |-> <<>>, confidence |-> -1, processingTime |-> -1]

\* no invocation on the shared client yet, and the App as it is first rendered
HostInit ==
    /\ calls = <<>>
    /\ selectedFile = <<>>
    /\ extractedProducts = <<>>
    /\ isProcessing = FALSE
    /\ showManualEntry = FALSE
    /\ extractionMeta = <<>>
    /\ handlers = <<>>
    /\ lastSettled = 0

Init ==
    /\ ocr \in Answers
    /\ pc = "idle"
    /\ startTime = 0
    /\ now = 0
    /\ lines = <<>>
    /\ i = 1
    /\ upcs = <<>>
    /\ skus = <<>>
    /\ names = <<>>
    /\ products = <<>>
    /\ parsed = <<>>
    /\ response = NoResponse
    /\ HostInit

parseVars == <<lines, i, upcs, skus, names, products, parsed>>

\* const startTime = Date.now(), up to the await of fetch
Invoke ==
    /\ pc = "idle"
    /\ startTime' = now
    /\ pc' = "fetch"
    /\ UNCHANGED <<hostVars, ocr, now, parseVars, response>>

\* await fetch(...)
FetchResolves ==
    /\ pc = "fetch" /\ ocr.fetch = "resolve"
    /\ pc' = "json"
    /\ UNCHANGED <<hostVars, ocr, startTime, now, parseVars, response>>

FetchRejects ==
    /\ pc = "fetch" /\ ocr.fetch = "reject"
    /\ pc' = "catch"
    /\ UNCHANGED <<hostVars, ocr, startTime, now, parseVars, response>>

\* await response.json()
JsonResolves ==
    /\ pc = "json" /\ ocr.json = "resolve"
    /\ pc' = "check"
    /\ UNCHANGED <<hostVars, ocr, startTime, now, parseVars, response>>

JsonRejects ==
    /\ pc = "json" /\ ocr.json = "reject"
    /\ pc' = "catch"
    /\ UNCHANGED <<hostVars, ocr, startTime, now, parseVars, response>>

\* if (result.IsErroredOnProcessing) throw
OcrErrored ==
    /\ pc = "check" /\ ocr.IsErroredOnProcessing
    /\ pc' = "catch"
    /\ UNCHANGED <<hostVars, ocr, startTime, now, parseVars, response>>

\* if (!result.ParsedResults || result.ParsedResults.length === 0) throw
NoParsedResults ==
    /\ pc = "check" /\ ~ocr.IsErroredOnProcessing
    /\ ~ocr.hasParsedResults \/ Len(ocr.ParsedResults) = 0
    /\ pc' = "catch"
    /\ UNCHANGED <<hostVars, ocr, startTime, now, parseVars, response>>

\* parseProductsFromText(extractedText), up to the main loop
ParseStart ==
    /\ pc = "check" /\ ~ocr.IsErroredOnProcessing
    /\ ocr.hasParsedResults /\ Len(ocr.ParsedResults) > 0
    /\ lines' = segment(extractedText)
    /\ i' = 1
    /\ upcs' = <<>> /\ skus' = <<>> /\ names' = <<>> /\ products' = <<>>
    /\ pc' = "loop"
    /\ UNCHANGED <<hostVars, ocr, startTime, now, parsed, response>>

InLoop == pc = "loop" /\ i <= Len(lines)

\* Skip headers: continue
SkipHeader ==
    /\ InLoop /\ branch(lines[i]) = "header"
    /\ i' = i + 1
    /\ UNCHANGED <<hostVars, ocr, pc, startTime, now, lines, upcs, skus, names, products, parsed, response>>

\* Skip patterns: continue
SkipPattern ==
    /\ InLoop /\ branch(lines[i]) = "pattern"
    /\ i' = i + 1
    /\ UNCHANGED <<hostVars, ocr, pc, startTime, now, lines, upcs, skus, names, products, parsed, response>>

\* const num = line.match(upcPattern)?.[0]; upcs.push(num); continue
StandaloneUpc ==
    /\ InLoop /\ branch(lines[i]) = "upc"
    /\ upcs' = Append(upcs, lines[i])
    /\ i' = i + 1
    /\ UNCHANGED <<hostVars, ocr, pc, startTime, now, lines, skus, names, products, parsed, response>>

\* the standalone SKU also pushed as a UPC when it has the UPC shape
StandaloneSkuAlsoUpc ==
    /\ InLoop /\ branch(lines[i]) = "sku"
    /\ skus' = Append(skus, lines[i])
    /\ upcs' = IF upcPattern(lines[i]) THEN Append(upcs, lines[i]) ELSE upcs
    /\ i' = i + 1
    /\ UNCHANGED <<hostVars, ocr, pc, startTime, now, lines, names, products, parsed, response>>

\* const num = line.match(skuPattern)?.[0]; skus.push(num); continue
StandaloneSku ==
    /\ InLoop /\ branch(lines[i]) = "sku"
    /\ skus' = Append(skus, lines[i])
    /\ i' = i + 1
    /\ UNCHANGED <<hostVars, ocr, pc, startTime, now, lines, upcs, names, products, parsed, response>>

\* products.push({ productName: name, skuNumber: sku, upc: upc }); continue
RowFormat ==
    /\ InLoop /\ branch(lines[i]) = "row"
    /\ products' = Append(products, rowProduct(lines[i]))
    /\ i' = i + 1
    /\ UNCHANGED <<hostVars, ocr, pc, startTime, now, lines, upcs, skus, names, parsed, response>>

\* a name pushed only when the list does not hold it yet
NameFoundOnce ==
    /\ InLoop /\ branch(lines[i]) = "name"
    /\ names' = IF \E k \in 1..Len(names) : names[k] = lines[i]
                THEN names ELSE Append(names, lines[i])
    /\ i' = i + 1
    /\ UNCHANGED <<hostVars, ocr, pc, startTime, now, lines, upcs, skus, products, parsed, response>>

\* names.push(line)
NameFound ==
    /\ InLoop /\ branch(lines[i]) = "name"
    /\ names' = Append(names, lines[i])
    /\ i' = i + 1
    /\ UNCHANGED <<hostVars, ocr, pc, startTime, now, lines, upcs, skus, products, parsed, response>>

\* no test of the loop body succeeds
NothingFound ==
    /\ InLoop /\ branch(lines[i]) = "none"
    /\ i' = i + 1
    /\ UNCHANGED <<hostVars, ocr, pc, startTime, now, lines, upcs, skus, names, products, parsed, response>>

\* the row records returned with the column records appended (no early return)
ReturnRowsThenColumns ==
    /\ pc = "loop" /\ i > Len(lines)
    /\ Len(products) > 0
    /\ products' = products \o zipColumns(names, skus, upcs)
    /\ parsed' = SubSeq(products', 1, Min(MaxRecords, Len(products')))
    /\ pc' = "return"
    /\ UNCHANGED <<hostVars, ocr, startTime, now, lines, i, upcs, skus, names, response>>

\* if (products.length > 0) return products.slice(0, 100)
ReturnRows ==
    /\ pc = "loop" /\ i > Len(lines)
    /\ Len(products) > 0
    /\ parsed' = slice(products, 0, MaxRecords)
    /\ pc' = "return"
    /\ UNCHANGED <<hostVars, ocr, startTime, now, lines, i, upcs, skus, names, products, response>>

\* match columns by index; return products.slice(0, 100)
ReturnColumns ==
    /\ pc = "loop" /\ i > Len(lines)
    /\ Len(products) = 0
    /\ products' = zipColumns(names, skus, upcs)
    /\ parsed' = slice(products', 0, MaxRecords)
    /\ pc' = "return"
    /\ UNCHANGED <<hostVars, ocr, startTime, now, lines, i, upcs, skus, names, response>>

\* what Date.now() may return when it returned last before: it is the wall clock,
\* which runs on or is set back between two reads
DateNow(last) == (last - MaxElapsed)..(last + MaxElapsed)

\* confidence in tenths: 0.9 is 9, 0.7 is 7
confidenceOf(block) == IF block.HasOverlay THEN 9 ELSE 7

\* the success return with confidence 0 when no record was extracted
ResolveZeroWhenEmpty ==
    /\ pc = "return"
    /\ \E t \in DateNow(now) :
          /\ now' = t
          /\ response' = [products |-> parsed,
                          confidence |-> IF parsed = <<>> THEN 0
                                         ELSE confidenceOf(ocr.ParsedResults[1]),
                          processingTime |-> t - startTime]
    /\ pc' = "done"
    /\ UNCHANGED <<hostVars, ocr, startTime, parseVars>>

\* processingTime = Date.now() - startTime; return { products, confidence, processingTime }
Resolve ==
    /\ pc = "return"
    /\ \E t \in DateNow(now) :
          /\ now' = t
          /\ response' = [products |-> parsed,
                          confidence |-> confidenceOf(ocr.ParsedResults[1]),
                          processingTime |-> t - startTime]
    /\ pc' = "done"
    /\ UNCHANGED <<hostVars, ocr, startTime, parseVars>>

\* a catch block that throws the error on: the promise rejects
CatchRethrows ==
    /\ pc = "catch"
    /\ pc' = "rejected"
    /\ UNCHANGED <<hostVars, ocr, startTime, now, parseVars, response>>

\* catch (error) { return { products: [], confidence: 0, processingTime: Date.now() - startTime } }
Catch ==
    /\ pc = "catch"
    /\ \E t \in DateNow(now) :
          /\ now' = t
          /\ response' = [products |-> <<>>, confidence |-> 0, processingTime |-> t - startTime]
    /\ pc' = "done"
    /\ UNCHANGED <<hostVars, ocr, startTime, parseVars>>

Next ==
    \/ Invoke
    \/ FetchResolves \/ FetchRejects
    \/ JsonResolves \/ JsonRejects
    \/ OcrErrored \/ NoParsedResults
    \/ ParseStart
    \/ SkipHeader \/ SkipPattern \/ StandaloneUpc \/ StandaloneSku
    \/ RowFormat \/ NameFound \/ NothingFound
    \/ ReturnRows \/ ReturnColumns
    \/ Resolve \/ Catch

Spec == Init /\ [][Next]_vars

-----------------------------------------------------------------------------
(* Invocations of extractProductData that overlap on the shared docextClient *)

\* number of invocations that overlap
MaxCalls == 2

\* what Date.now() may return: it is the wall clock, which runs on or is set
\* back between two reads, so that a later read may return less than an earlier
WallClock == {0, 1}

\* Date.now() - startTime at the return of an extraction the App awaits: zero when
\* both reads give the same millisecond, negative when the wall clock was set back
ElapsedTimes == {-1, 0, 1}

Invocations == 1..MaxCalls

\* parseProductsFromText as a function of its text: the lines each branch of the
\* loop body takes, then the row records or the column zip, cut at 100
parseProductsFromText(text) ==
    LET ls == segment(text)
        taken(b) == SelectSeq(ls, LAMBDA l : branch(l) = b)
        rows == LET r == taken("row") IN [k \in 1..Len(r) |-> rowProduct(r[k])]
    IN IF Len(rows) > 0 THEN slice(rows, 0, MaxRecords)
       ELSE slice(zipColumns(taken("name"), taken("sku"), taken("upc")), 0, MaxRecords)

\* what extractProductData resolves to for an answer of the OCR boundary, elapsed
\* being Date.now() - startTime at the return
extractProductData(answer, elapsed) ==
    IF \/ answer.fetch = "reject" \/ answer.json = "reject"
       \/ answer.IsErroredOnProcessing
       \/ ~answer.hasParsedResults \/ Len(answer.ParsedResults) = 0
    THEN [products |-> <<>>, confidence |-> 0, processingTime |-> elapsed]
    ELSE LET block == answer.ParsedResults[1]
             text == IF block.ParsedText = <<>> THEN "" ELSE block.ParsedText[1]
         IN [products |-> parseProductsFromText(text),
             confidence |-> confidenceOf(block),
             processingTime |-> elapsed]

\* the answers the overlapping invocations and the App's extractions get
HostAnswers ==
    { a \in FailedAnswers :
         \/ a.fetch = "reject" \/ a.json = "reject"
         \/ a.IsErroredOnProcessing /\ a.hasParsedResults }
    \cup { [fetch |-> "resolve", json |-> "resolve", IsErroredOnProcessing |-> FALSE,
            hasParsedResults |-> TRUE,
            ParsedResults |-> <<[ParsedText |-> <<ScenarioA>>, HasOverlay |-> TRUE]>>],
           [fetch |-> "resolve", json |-> "resolve", IsErroredOnProcessing |-> FALSE,
            hasParsedResults |-> TRUE,
            ParsedResults |-> <<[ParsedText |-> <<"PEANUT BUTTER\n11000000001">>,
                                 HasOverlay |-> FALSE]>>],
           [fetch |-> "resolve", json |-> "resolve", IsErroredOnProcessing |-> FALSE,
            hasParsedResults |-> TRUE,
            ParsedResults |-> <<[ParsedText |-> <<>>, HasOverlay |-> FALSE]>>] }

\* extractProductData tabulated over HostAnswers for an elapsed time of 0: what
\* an invocation resolves to depends on its answer and on its two clock reads only
resolved == [a \in HostAnswers |-> extractProductData(a, 0)]

\* the single invocation of Spec at rest
EngineAtRest ==
    /\ ocr = CHOOSE a \in FailedAnswers : a.fetch = "reject"
    /\ pc = "idle"
    /\ startTime = 0
    /\ lines = <<>>
    /\ i = 1
    /\ upcs = <<>> /\ skus = <<>> /\ names = <<>> /\ products = <<>>
    /\ parsed = <<>>
    /\ response = NoResponse

engineVars == <<ocr, pc, startTime, lines, i, upcs, skus, names, products, parsed, response>>

appVars == <<selectedFile, extractedProducts, isProcessing, showManualEntry,
             extractionMeta, handlers, lastSettled>>

ConcurrentInit ==
    /\ EngineAtRest
    /\ now = 0
    /\ calls \in [Invocations -> [pc : {"idle"}, ocr : HostAnswers, startTime : {0},
                                  response : {NoResponse}]]
    /\ selectedFile = <<>>
    /\ extractedProducts = <<>>
    /\ isProcessing = FALSE
    /\ showManualEntry = FALSE
    /\ extractionMeta = <<>>
    /\ handlers = <<>>
    /\ lastSettled = 0

\* startTime kept in a field of the shared client instead of a local
CallInvokeSharedStart(k) ==
    /\ calls[k].pc = "idle"
    /\ \E t \in WallClock :
          /\ now' = t
          /\ calls' = [j \in Invocations |->
                          IF j = k THEN [calls[j] EXCEPT !.pc = "fetch", !.startTime = t]
                          ELSE [calls[j] EXCEPT !.startTime = t]]
    /\ UNCHANGED <<engineVars, appVars>>

\* const startTime = Date.now(), up to the await of fetch
CallInvoke(k) ==
    /\ calls[k].pc = "idle"
    /\ \E t \in WallClock :
          /\ now' = t
          /\ calls' = [calls EXCEPT ![k].pc = "fetch", ![k].startTime = t]
    /\ UNCHANGED <<engineVars, appVars>>

\* await fetch(...) resolves: response.json() is called and awaited
CallFetchResolves(k) ==
    /\ calls[k].pc = "fetch" /\ calls[k].ocr.fetch = "resolve"
    /\ calls' = [calls EXCEPT ![k].pc = "json"]
    /\ UNCHANGED <<engineVars, now, appVars>>

\* an await rejects (fetch or response.json()): the catch block returns
CallAwaitRejects(k) ==
    /\ \/ calls[k].pc = "fetch" /\ calls[k].ocr.fetch = "reject"
       \/ calls[k].pc = "json" /\ calls[k].ocr.json = "reject"
    /\ \E t \in WallClock :
          /\ now' = t
          /\ calls' = [calls EXCEPT
                          ![k].pc = "done",
                          ![k].response = [products |-> <<>>, confidence |-> 0,
                                           processingTime |-> t - calls[k].startTime]]
    /\ UNCHANGED <<engineVars, appVars>>

\* await response.json() resolves: the rest of the function runs to its return
CallJsonResolves(k) ==
    /\ calls[k].pc = "json" /\ calls[k].ocr.json = "resolve"
    /\ \E t \in WallClock :
          /\ now' = t
          /\ calls' = [calls EXCEPT
                          ![k].pc = "done",
                          ![k].response =
                              [resolved[calls[k].ocr] EXCEPT
                                  !.processingTime = t - calls[k].startTime]]
    /\ UNCHANGED <<engineVars, appVars>>

ConcurrentNext ==
    \E k \in Invocations :
        \/ CallInvoke(k)
        \/ CallFetchResolves(k)
        \/ CallAwaitRejects(k)
        \/ CallJsonResolves(k)

ConcurrentSpec == ConcurrentInit /\ [][ConcurrentNext]_vars

-----------------------------------------------------------------------------
(* The App: handleFileSelect invocations, handleRemoveFile and manual entry *)

\* number of files the user selects
MaxSelections == 2

\* const maxSizeKB = 1024
maxSizeKB == 1024

Selections == 1..MaxSelections

\* null, for selectedFile and for a file a handler has not got yet
NoFile == <<>>

lowerOf == [c \in UpperChars |->
              At(LowerAlpha, CHOOSE k \in 1..Len(UpperAlpha) : At(UpperAlpha, k) = c)]

RECURSIVE toLowerCase(_)
toLowerCase(s) ==
    IF Len(s) = 0 THEN ""
    ELSE (IF At(s, 1) \in UpperChars THEN lowerOf[At(s, 1)] ELSE At(s, 1))
         \o toLowerCase(SubSeq(s, 2, Len(s)))

\* the files FileUpload hands to onFileSelect: type image/*, or a name ending in
\* .heic or .heif; sizeKB is file.size / 1024; id tells the File objects apart
FileKinds ==
    { [name |-> "a.jpg", type |-> "image/jpeg", sizeKB |-> 200],
      [name |-> "b.png", type |-> "image/png", sizeKB |-> 2048],
      [name |-> "c.HEIC", type |-> "", sizeKB |-> 200] }

FileOf(h, kind) ==
    [id |-> h, name |-> kind.name, type |-> kind.type, sizeKB |-> kind.sizeKB]

isHeic(file) ==
    \/ file.type = "image/heic"
    \/ file.type = "image/heif"
    \/ endsWith(toLowerCase(file.name), ".heic")
    \/ endsWith(toLowerCase(file.name), ".heif")

\* file.name.replace(/\.heic$/i, '.jpg')
replaceHeicSuffix(name) ==
    IF endsWith(toLowerCase(name), ".heic")
    THEN SubSeq(name, 1, Len(name) - 5) \o ".jpg"
    ELSE name

\* new File([blob], file.name.replace(/\.heic$/i, '.jpg'), { type: 'image/jpeg' })
convertedFile(file, blobKB) ==
    [id |-> file.id, name |-> replaceHeicSuffix(file.name), type |-> "image/jpeg",
     sizeKB |-> blobKB]

\* file.name.replace(/\.(heic|heif)$/i, '.jpg')
replaceHeicHeifSuffix(name) ==
    IF endsWith(toLowerCase(name), ".heic") \/ endsWith(toLowerCase(name), ".heif")
    THEN SubSeq(name, 1, Len(name) - 5) \o ".jpg"
    ELSE name

\* compressImage: new File([blob], file.name.replace(...), { type: 'image/jpeg' })
compressedFile(file, blobKB) ==
    [id |-> file.id, name |-> replaceHeicHeifSuffix(file.name), type |-> "image/jpeg",
     sizeKB |-> blobKB]

\* the sizes of the blob compressImage resolves with: at most targetKB, or more
\* when the quality has reached its floor
CompressedSizes == {900, 1500}

\* the sizes heic2any's blob may have
BlobSizes == {200, 2048}

\* where handleFileSelect goes once fileToProcess is known: the size test
afterSizeTest(file) == IF file.sizeKB > maxSizeKB THEN "compress" ELSE "extract"

\* the records the operator may submit from ManualEntry (never an empty list)
ManualProducts == { <<[productName |-> "TEA", skuNumber |-> "", upc |-> ""]>> }

appVarsButHandlers == <<selectedFile, extractedProducts, isProcessing, showManualEntry,
                        extractionMeta>>

IdleHandler == [pc |-> "idle", fileToProcess |-> NoFile, result |-> NoResponse]

InFlight(h) == handlers[h].pc \in {"convert", "compress", "extract"}

\* {!isProcessing && selectedFile && extractedProducts.length === 0 && (...)} in
\* the branch of showManualEntry ? ... : ... that shows the results
ocrFailedMessage ==
    /\ ~showManualEntry
    /\ ~isProcessing /\ selectedFile # NoFile /\ Len(extractedProducts) = 0

AppInit ==
    /\ EngineAtRest
    /\ now = 0
    /\ calls = <<>>
    /\ selectedFile = NoFile
    /\ extractedProducts = <<>>
    /\ isProcessing = FALSE
    /\ showManualEntry = FALSE
    /\ extractionMeta = <<>>
    /\ handlers = [h \in Selections |-> IdleHandler]
    /\ lastSettled = 0

\* handleFileSelect(file), up to its first await
HandleFileSelect(h) ==
    /\ handlers[h].pc = "idle"
    /\ h > 1 => handlers[h - 1].pc # "idle"
    /\ \E kind \in FileKinds :
          LET file == FileOf(h, kind)
          IN /\ extractedProducts' = <<>>
             /\ showManualEntry' = FALSE
             /\ isProcessing' = TRUE
             /\ IF isHeic(file)
                THEN /\ handlers' = [handlers EXCEPT ![h].pc = "convert",
                                                     ![h].fileToProcess = file]
                     /\ UNCHANGED selectedFile
                ELSE /\ selectedFile' = file
                     /\ handlers' = [handlers EXCEPT ![h].pc = afterSizeTest(file),
                                                     ![h].fileToProcess = file]
    /\ lastSettled' = 0
    /\ UNCHANGED <<engineVars, now, calls, extractionMeta>>

\* await heic2any(...) resolves: the converted file is selected
ConvertResolves(h) ==
    /\ handlers[h].pc = "convert"
    /\ \E blobKB \in BlobSizes :
          LET converted == convertedFile(handlers[h].fileToProcess, blobKB)
          IN /\ selectedFile' = converted
             /\ handlers' = [handlers EXCEPT ![h].pc = afterSizeTest(converted),
                                             ![h].fileToProcess = converted]
    /\ lastSettled' = 0
    /\ UNCHANGED <<engineVars, now, calls, extractedProducts, isProcessing,
                   showManualEntry, extractionMeta>>

\* await heic2any(...) rejects: alert, setIsProcessing(false), return; finally
ConvertRejects(h) ==
    /\ handlers[h].pc = "convert"
    /\ isProcessing' = FALSE
    /\ handlers' = [handlers EXCEPT ![h].pc = "done", ![h].fileToProcess = NoFile]
    /\ lastSettled' = 0
    /\ UNCHANGED <<engineVars, now, calls, selectedFile, extractedProducts,
                   showManualEntry, extractionMeta>>

\* await compressImage(...) resolves: the compressed file is sent to the OCR
CompressResolves(h) ==
    /\ handlers[h].pc = "compress"
    /\ \E blobKB \in CompressedSizes :
          handlers' = [handlers EXCEPT
                          ![h].pc = "extract",
                          ![h].fileToProcess = compressedFile(handlers[h].fileToProcess,
                                                              blobKB)]
    /\ lastSettled' = 0
    /\ UNCHANGED <<engineVars, now, calls, appVarsButHandlers>>

\* await compressImage(...) rejects: alert, the file is sent as it is
CompressRejects(h) ==
    /\ handlers[h].pc = "compress"
    /\ handlers' = [handlers EXCEPT ![h].pc = "extract"]
    /\ lastSettled' = 0
    /\ UNCHANGED <<engineVars, now, calls, appVarsButHandlers>>

\* what the promise of docextClient.extractProductData may resolve to, the
\* processing time apart
Settlements == { resolved[a] : a \in HostAnswers }

\* the handler without its finally block
ExtractionSettlesNoFinally(h) ==
    /\ handlers[h].pc = "extract"
    /\ \E settled \in Settlements, elapsed \in ElapsedTimes :
          LET result == [settled EXCEPT !.processingTime = elapsed]
          IN /\ extractedProducts' = result.products
             /\ extractionMeta' = [confidence |-> result.confidence,
                                   processingTime |-> result.processingTime]
             /\ handlers' = [handlers EXCEPT ![h].pc = "done",
                                             ![h].fileToProcess = NoFile,
                                             ![h].result = result]
    /\ lastSettled' = h
    /\ UNCHANGED <<engineVars, now, calls, selectedFile, showManualEntry, isProcessing>>

\* await docextClient.extractProductData(fileToProcess) resolves:
\* setExtractedProducts, setExtractionMeta, and the finally block
ExtractionSettles(h) ==
    /\ handlers[h].pc = "extract"
    /\ \E settled \in Settlements, elapsed \in ElapsedTimes :
          LET result == [settled EXCEPT !.processingTime = elapsed]
          IN /\ extractedProducts' = result.products
             /\ extractionMeta' = [confidence |-> result.confidence,
                                   processingTime |-> result.processingTime]
             /\ handlers' = [handlers EXCEPT ![h].pc = "done",
                                             ![h].fileToProcess = NoFile,
                                             ![h].result = result]
    /\ isProcessing' = FALSE
    /\ lastSettled' = h
    /\ UNCHANGED <<engineVars, now, calls, selectedFile, showManualEntry>>

\* handleRemoveFile, the onRemove of the ImagePreview shown for a selected file
HandleRemoveFile ==
    /\ selectedFile # NoFile
    /\ selectedFile' = NoFile
    /\ extractedProducts' = <<>>
    /\ extractionMeta' = <<>>
    /\ showManualEntry' = FALSE
    /\ lastSettled' = 0
    /\ UNCHANGED <<engineVars, now, calls, isProcessing, handlers>>

\* handleManualEntry, the onClick of the button in the ocr-failed-message
HandleManualEntry ==
    /\ ocrFailedMessage
    /\ showManualEntry' = TRUE
    /\ lastSettled' = 0
    /\ UNCHANGED <<engineVars, now, calls, selectedFile, extractedProducts,
                   isProcessing, extractionMeta, handlers>>

\* handleManualProductsAdded, called by ManualEntry.handleSubmit with its records
HandleManualProductsAdded ==
    /\ showManualEntry
    /\ \E ps \in ManualProducts : extractedProducts' = ps
    /\ showManualEntry' = FALSE
    /\ extractionMeta' = [confidence |-> 10, processingTime |-> 0]
    /\ lastSettled' = 0
    /\ UNCHANGED <<engineVars, now, calls, selectedFile, isProcessing, handlers>>

\* handleCancelManualEntry, the onCancel of ManualEntry
HandleCancelManualEntry ==
    /\ showManualEntry
    /\ showManualEntry' = FALSE
    /\ lastSettled' = 0
    /\ UNCHANGED <<engineVars, now, calls, selectedFile, extractedProducts,
                   isProcessing, extractionMeta, handlers>>

AppNext ==
    \/ \E h \in Selections :
          \/ HandleFileSelect(h)
          \/ ConvertResolves(h)
          \/ ConvertRejects(h)
          \/ CompressResolves(h)
          \/ CompressRejects(h)
          \/ ExtractionSettles(h)
    \/ HandleRemoveFile
    \/ HandleManualEntry
    \/ HandleManualProductsAdded
    \/ HandleCancelManualEntry

\* an await of a handler settles: the promise resolves or rejects
AwaitSettles(h) ==
    \/ ConvertResolves(h)
    \/ ConvertRejects(h)
    \/ CompressResolves(h)
    \/ CompressRejects(h)
    \/ ExtractionSettles(h)

\* every awaited call settles; the user is free to do nothing
AppSpec ==
    /\ AppInit
    /\ [][AppNext]_vars
    /\ \A h \in Selections : WF_vars(AwaitSettles(h))

-----------------------------------------------------------------------------
(* Properties *)

\* parseProductsFromText has just returned `parsed`
Returned == pc = "return"

\* the OCR boundary fails: an exception reaches the catch block
BoundaryFails ==
    \/ ocr.fetch = "reject"
    \/ ocr.json = "reject"
    \/ ocr.IsErroredOnProcessing
    \/ ~ocr.hasParsedResults
    \/ Len(ocr.ParsedResults) = 0

linesOf(b) == SelectSeq(lines, LAMBDA l : branch(l) = b)

\* the records of the lines resolved as composite rows, in document order
rowRecords == LET rows == linesOf("row") IN [k \in 1..Len(rows) |-> rowProduct(rows[k])]

bothShapes(s) == skuPattern(s) /\ upcPattern(s)

allEmpty(r) == r.productName = "" /\ r.skuNumber = "" /\ r.upc = ""

\* C1: the list parseProductsFromText returns has at most 100 records, on the row
\* path and on the column path alike.
C1_AtMostMaxRecords == Returned => Len(parsed) <= MaxRecords

C1_Witness == Returned /\ Len(products) > MaxRecords /\ Len(parsed) = MaxRecords

\* C2: when at least one line is resolved as a composite row, the returned list is
\* exactly the composite-row records in document order, up to the cap; nothing of the
\* standalone names, SKUs and UPCs is zipped into it.
C2_RowsAreTheResult ==
    (Returned /\ rowRecords # <<>>) =>
        parsed = SubSeq(rowRecords, 1, Min(MaxRecords, Len(rowRecords)))

C2_Witness ==
    /\ Returned
    /\ Len(parsed) = 2 /\ parsed[1] # parsed[2]
    /\ names # <<>> /\ skus # <<>> /\ upcs # <<>>

\* C3 as stated: with no composite row the returned list has length
\* max(len(names), len(skus), len(upcs)) and record i is the positional zip.
C3_ZipLengthIsMax ==
    (Returned /\ rowRecords = <<>>) =>
        LET ns == linesOf("name")
            ss == linesOf("sku")
            us == linesOf("upc")
        IN /\ Len(parsed) = Max(Len(ns), Max(Len(ss), Len(us)))
           /\ \A k \in 1..Len(parsed) :
                 parsed[k] = [productName |-> IF k <= Len(ns) THEN ns[k] ELSE "",
                              skuNumber   |-> IF k <= Len(ss) THEN ss[k] ELSE "",
                              upc         |-> IF k <= Len(us) THEN us[k] ELSE ""]

\* C3 amended: with no composite row the returned list has length
\* min(100, max(len(names), len(skus), len(upcs))), record i is
\* {names[i] or "", skus[i] or "", upcs[i] or ""} for every index in range, and five
\* name lines, five SKU lines and five UPC lines give exactly 5 records zipped by
\* position.
C3_ZipCapped ==
    (Returned /\ rowRecords = <<>>) =>
        LET ns == linesOf("name")
            ss == linesOf("sku")
            us == linesOf("upc")
        IN /\ Len(parsed) = Min(MaxRecords, Max(Len(ns), Max(Len(ss), Len(us))))
           /\ \A k \in 1..Len(parsed) :
                 parsed[k] = [productName |-> IF k <= Len(ns) THEN ns[k] ELSE "",
                              skuNumber   |-> IF k <= Len(ss) THEN ss[k] ELSE "",
                              upc         |-> IF k <= Len(us) THEN us[k] ELSE ""]
           /\ lines = ScenarioB =>
                 parsed = [k \in 1..5 |-> [productName |-> ScenarioB[k],
                                           skuNumber   |-> ScenarioB[5 + k],
                                           upc         |-> ScenarioB[10 + k]]]

C3_Witness ==
    /\ Returned /\ lines = ScenarioB
    /\ Len(names) = 5 /\ Len(skus) = 5 /\ Len(upcs) = 5
    /\ Len(parsed) = 5

\* C4 as stated: in every extraction path a numeric token that matches both the SKU
\* pattern and the UPC shape is placed only in a SKU position, never in a UPC
\* position (the upcs list or a record's upc).
C4_NeverInUpcPosition ==
    /\ \A k \in 1..Len(upcs) : ~bothShapes(upcs[k])
    /\ \A k \in 1..Len(products) : ~bothShapes(products[k].upc)
    /\ Returned => \A k \in 1..Len(parsed) : ~bothShapes(parsed[k].upc)

\* C4 amended: on the standalone paths (standalone-UPC line and standalone-SKU line)
\* a numeric token that matches both the SKU pattern and the UPC shape is placed only
\* in a SKU position (the skus list) and never in a UPC position (the upcs list, or
\* the upc of a record built from the lists); the composite-row path is excepted.
C4_StandalonePrecedence ==
    /\ \A k \in 1..Len(upcs) : ~bothShapes(upcs[k])
    /\ pc = "loop" =>
          SelectSeq(SubSeq(lines, 1, i - 1), bothShapes) = SelectSeq(skus, bothShapes)
    /\ (Returned /\ rowRecords = <<>>) =>
          \A k \in 1..Len(parsed) : ~bothShapes(parsed[k].upc)

C4_Witness ==
    /\ Returned /\ rowRecords = <<>>
    /\ \E k \in 1..Len(parsed) : bothShapes(parsed[k].skuNumber) /\ parsed[k].upc # ""

\* C5: header suppression is idempotent: the header/skip check of the classifier,
\* run on any productName the engine emits, never classifies it as a header.
C5_NamesAreNotHeaders ==
    Returned =>
        \A k \in 1..Len(parsed) :
            parsed[k].productName # "" =>
                ~(isHeader(parsed[k].productName) \/ skipPatterns(parsed[k].productName))

\* C6: the single line "CRUNCHY PEANUT BUTTER 12234567890 1234567890123" yields
\* exactly one record, produced by the row path, with productName
\* "CRUNCHY PEANUT BUTTER", skuNumber "12234567890" and upc "1234567890123".
C6_ScenarioA ==
    (Returned /\ extractedText = ScenarioA) =>
        /\ parsed = <<[productName |-> "CRUNCHY PEANUT BUTTER",
                       skuNumber   |-> "12234567890",
                       upc         |-> "1234567890123"]>>
        /\ products = parsed
        /\ names = <<>> /\ skus = <<>> /\ upcs = <<>>

C6_Witness == Returned /\ extractedText = ScenarioA /\ Len(parsed) = 1

\* C7 as stated: when the recognized text is the empty string on a successful OCR
\* answer, the result is products = [], confidence = 0 and processingTime >= 0.
C7_EmptyTextConfidenceZero ==
    (pc = "done" /\ ~BoundaryFails /\ extractedText = "") =>
        /\ response.products = <<>>
        /\ response.confidence = 0
        /\ response.processingTime >= 0

\* C8: whenever the OCR boundary fails (IsErroredOnProcessing set, ParsedResults
\* missing or empty, fetch or JSON decoding rejects), extractProductData does not
\* reject: it goes on to resolve, and resolves to products = [] and confidence = 0.
C8_FailureResolvesEmpty ==
    /\ pc # "rejected"
    /\ (BoundaryFails /\ pc # "done") => ENABLED Next
    /\ (BoundaryFails /\ pc = "done") =>
          response.products = <<>> /\ response.confidence = 0

C8_Witness ==
    /\ pc = "done" /\ ocr.IsErroredOnProcessing
    /\ response.products = <<>> /\ response.confidence = 0

\* C9: every record of the returned list has at least one non-empty field among
\* productName, skuNumber and upc, on the row path and on the column path.
C9_NoEmptyRecord == Returned => \A k \in 1..Len(parsed) : ~allEmpty(parsed[k])

C9_Witness ==
    /\ Returned /\ rowRecords = <<>>
    /\ Len(parsed) = 2
    /\ parsed[2].productName = "" /\ parsed[2].upc = "" /\ parsed[2].skuNumber # ""

\* C10: a line equal (case-insensitively, after trimming) to a header keyword of the
\* skip vocabulary never appears as the productName of a returned record, whatever
\* other lines the input has.
C10_KeywordNeverAName ==
    Returned =>
        \A j \in 1..Len(lines) :
            toUpperCase(lines[j]) \in skipWords =>
                \A k \in 1..Len(parsed) : parsed[k].productName # lines[j]

\* the four collections the main loop fills
collected == <<names, skus, upcs, products>>

elements(seq) == {seq[k] : k \in 1..Len(seq)}

\* C11: a trimmed line shorter than 5 characters contributes nothing: the step of
\* the main loop that handles it leaves names, skus, upcs and the row records as
\* they are, whatever the line holds.
C11_ShortLinesAddNothing ==
    [][(InLoop /\ Len(lines[i]) < 5) => UNCHANGED collected]_vars

C11_Witness ==
    /\ pc = "loop" /\ i = 2
    /\ Len(lines[1]) < 5 /\ hasRun(lines[1], LetterChars, 1)
    /\ ~isHeader(lines[1]) /\ ~skipPatterns(lines[1])
    /\ names = <<>> /\ skus = <<>> /\ upcs = <<>> /\ products = <<>>

\* what a line by itself adds to the four collections
contribution(line) ==
    LET b == branch(line) IN
    [names    |-> IF b = "name" THEN <<line>> ELSE <<>>,
     skus     |-> IF b = "sku" THEN <<line>> ELSE <<>>,
     upcs     |-> IF b = "upc" THEN <<line>> ELSE <<>>,
     products |-> IF b = "row" THEN <<rowProduct(line)>> ELSE <<>>]

\* the records a document yields, computed from its lines alone
recordsOf ==
    slice(IF rowRecords # <<>> THEN rowRecords
          ELSE zipColumns(linesOf("name"), linesOf("sku"), linesOf("upc")),
          0, MaxRecords)

\* C12: classification is stateless: every step of the main loop adds to the four
\* collections what the current line alone determines, whatever its position and
\* whatever the lines before it added, and the returned records are determined by
\* the lines of the text.
C12_ClassificationIsStateless ==
    /\ [][InLoop =>
            LET c == contribution(lines[i])
            IN /\ names' = names \o c.names
               /\ skus' = skus \o c.skus
               /\ upcs' = upcs \o c.upcs
               /\ products' = products \o c.products]_vars
    /\ [](Returned => parsed = recordsOf)

C12_Witness ==
    /\ pc = "loop" /\ i = 3
    /\ lines[1] = lines[2]
    /\ names = <<lines[1], lines[2]>>

\* C13: each non-empty line adds at most one item to the four collections: after
\* any number of lines rows + names + skus + upcs is at most the number of lines
\* handled, and the returned list has no more records than the text has non-empty
\* lines.
C13_AtMostOnePerLine ==
    /\ pc = "loop" =>
          /\ i - 1 <= Len(lines)
          /\ Len(products) + Len(names) + Len(skus) + Len(upcs) <= i - 1
    /\ Returned =>
          /\ Len(names) + Len(skus) + Len(upcs) <= Len(lines)
          /\ Len(parsed) <= Len(lines)

C13_Witness ==
    /\ Returned
    /\ Len(lines) = 2 /\ Len(parsed) = 2
    /\ Len(names) + Len(skus) + Len(upcs) = 2

\* the line being handled is taken as a composite row
rowTaken == InLoop /\ products' # products

\* C14 as stated: a line is resolved as a composite row only if it holds a SKU
\* match, another numeric token and a run of at least 5 letters; one whose longest
\* letter run is shorter than 5 never produces a row record.
C14_RowNeedsFiveLetters ==
    [][rowTaken =>
          /\ skuMatch(lines[i]) # <<>>
          /\ Len(allNumbers(lines[i])) >= 2
          /\ hasRun(lines[i], LetterChars, 5)]_vars

\* C14 amended: a line is resolved as a composite row only if it holds at least two
\* 11-14 digit tokens, one of them matching the SKU pattern, and the name left after
\* removing the SKU and the UPC and cleaning is longer than 3 characters with a run
\* of at least 3 letters; a line with a SKU and a second numeric token whose cleaned
\* name has no run of 3 letters never produces a row record.
C14_RowNeedsCleanName ==
    /\ [][rowTaken =>
            LET r == products'[Len(products')]
            IN /\ products' = Append(products, r)
               /\ Len(allNumbers(lines[i])) >= 2
               /\ skuPattern(r.skuNumber)
               /\ r.skuNumber \in elements(allNumbers(lines[i]))
               /\ Len(r.productName) > 3
               /\ hasRun(r.productName, LetterChars, 3)]_vars
    /\ [][(/\ InLoop
           /\ skuMatch(lines[i]) # <<>>
           /\ Len(allNumbers(lines[i])) >= 2
           /\ LET sku == skuMatch(lines[i])[1]
                  name == cleanRowName(lines[i], sku, findUpc(allNumbers(lines[i]), sku))
              IN ~hasRun(name, LetterChars, 3))
          => products' = products]_vars

C14_Witness ==
    /\ pc = "loop" /\ i = 3
    /\ lines[1] = "11000000000 123456789012"
    /\ Len(products) = 1
    /\ products[1].productName = "TUNA"

\* C15: the productName of every composite-row record holds no 11-14 digit token,
\* also when the line has three or more numeric tokens or the same SKU twice, and
\* its upc is the first numeric token of the line that is not the SKU.
C15_RowNameHasNoNumber ==
    [][rowTaken =>
          LET r == products'[Len(products')]
              numbers == allNumbers(lines[i])
          IN /\ allNumbers(r.productName) = <<>>
             /\ \E j \in 1..Len(numbers) :
                   /\ numbers[j] = r.upc
                   /\ r.upc # r.skuNumber
                   /\ \A m \in 1..(j - 1) : numbers[m] = r.skuNumber]_vars

\* C16: a line that holds a SKU-pattern or UPC-pattern token never adds an entry to
\* names: no entry of the names list holds such a token.
C16_NamesHoldNoIdentifier ==
    \A k \in 1..Len(names) :
        \A w \in elements(wordRuns(names[k], 1)) : ~skuPattern(w) /\ ~upcPattern(w)

\* a line to which the name check is applied: no earlier test of the loop body takes it
reachesNameCheck(line) ==
    /\ ~isHeader(line) /\ ~skipPatterns(line)
    /\ ~isStandaloneUpc(line) /\ ~isStandaloneSku(line)
    /\ ~isRow(line)

\* 2 to 6 letters of either case, optionally followed by digits
labelShaped(line) ==
    \E n \in 2..6 :
        /\ n <= Len(line)
        /\ AllIn(SubSeq(line, 1, n), LetterChars)
        /\ AllIn(SubSeq(line, n + 1, Len(line)), DigitChars)

fiveLetters(line) == Len(line) = 5 /\ AllIn(line, LetterChars)

\* C17 as stated: a header-free line that is a run of exactly 5 letters is accepted
\* as a name fragment and appears in the names list.
C17_FiveLettersAccepted ==
    [][(InLoop /\ fiveLetters(lines[i]) /\ ~isHeader(lines[i]))
          => names' = Append(names, lines[i])]_vars

\* rejected by the name check as the amended claim words it
rejectedName(line) ==
    \/ Len(line) <= 5
    \/ ~hasRun(line, LetterChars, 5)
    \/ includes(line, "..")
    \/ labelShaped(line)

\* C17 amended: a line that reaches the name check is rejected exactly when it is
\* not longer than 5 characters, has no run of 5 letters, contains ".." or is made
\* of 2 to 6 letters of either case optionally followed by digits; in particular a
\* header-free line that is a run of exactly 5 letters is rejected and is not added
\* to the names list.
C17_NameAcceptance ==
    [][InLoop =>
          /\ names' = IF reachesNameCheck(lines[i]) /\ ~rejectedName(lines[i])
                      THEN Append(names, lines[i]) ELSE names
          /\ fiveLetters(lines[i]) => names' = names]_vars

C17_Witness ==
    /\ pc = "loop" /\ i > Len(lines)
    /\ "Chips" \in elements(lines) /\ "Chipsy" \in elements(lines)
    /\ "Chips!" \in elements(names)
    /\ "Chips" \notin elements(names) /\ "Chipsy" \notin elements(names)

\* C18: the name recorded for a name-fragment line is the cleaned line: whitespace
\* runs collapsed to one space and a leading digit run stripped, so no entry of the
\* names list starts with digits followed by a space.
C18_NamesAreCleaned ==
    \A k \in 1..Len(names) :
        /\ names[k] = trim(stripLeadingIndex(collapseSpaces(names[k])))
        /\ ~(/\ runLen(names[k], 1, DigitChars) >= 1
             /\ runLen(names[k], 1 + runLen(names[k], 1, DigitChars), SpaceChars) >= 1)

\* the header rule as the claim words it
wordedHeader(line) ==
    LET upperLine == toUpperCase(line) IN
    \E word \in skipWords :
        \/ upperLine = word
        \/ startsWith(upperLine, word \o " ") \/ startsWith(upperLine, word \o ":")
        \/ endsWith(upperLine, " " \o word) \/ endsWith(upperLine, ":" \o word)
        \/ (includes(upperLine, ":") /\ includes(upperLine, word))

\* C19: a line that equals a skip word, starts or ends with a skip word next to a
\* space or colon, or holds a colon together with a skip word anywhere, is a header:
\* it yields no name, SKU, UPC or row record.
C19_ColonAndSkipWordIsHeader ==
    [][(InLoop /\ wordedHeader(lines[i])) => UNCHANGED collected]_vars

\* a line made only of UPC-shaped tokens that are not SKU-shaped, separated by blanks
upcTokensOnly(line) ==
    /\ AllIn(line, DigitChars \cup {" "})
    /\ wordRuns(line, 1) # <<>>
    /\ \A w \in elements(wordRuns(line, 1)) : upcPattern(w) /\ ~skuPattern(w)

\* C20: a header-free line made only of UPC-shaped tokens yields every one of its
\* tokens: all of them are appended to upcs, in left-to-right order.
C20_EveryUpcTokenKept ==
    [][(InLoop /\ ~isHeader(lines[i]) /\ upcTokensOnly(lines[i]))
          => upcs' = upcs \o wordRuns(lines[i], 1)]_vars

\* C21: on a successful OCR answer the reported confidence is 0.9 when the first
\* parsed block has a text overlay and 0.7 otherwise, however many records were
\* extracted; confidence 0 is reported on the failure path only.
C21_ConfidenceIsBinary ==
    pc = "done" =>
        /\ response.confidence \in {0, 7, 9}
        /\ ~BoundaryFails =>
              response.confidence = (IF ocr.ParsedResults[1].HasOverlay THEN 9 ELSE 7)
        /\ response.confidence = 0 <=> BoundaryFails

C21_Witness ==
    /\ pc = "done" /\ ~BoundaryFails
    /\ ocr.ParsedResults[1].HasOverlay
    /\ Len(response.products) = 2
    /\ response.confidence = 9

\* C22: invocations of extractProductData that overlap on the shared docextClient
\* do not interfere: a step of one invocation changes nothing of any other (its
\* startTime included), and the invocation that returns resolves to what its own
\* answer alone determines, with the time elapsed since its own startTime
C22_InvocationsDoNotInterfere ==
    [][\A k \in Invocations :
          /\ calls'[k] # calls[k] =>
                \A j \in Invocations \ {k} : calls'[j] = calls[j]
          /\ (calls[k].pc # "done" /\ calls'[k].pc = "done") =>
                /\ calls'[k].response.products = resolved[calls[k].ocr].products
                /\ calls'[k].response.confidence = resolved[calls[k].ocr].confidence
                /\ calls'[k].response.processingTime = now' - calls[k].startTime]_vars

\* the second invocation started later and returned records while the first one
\* is still awaiting response.json()
C22_Witness ==
    /\ calls # <<>>
    /\ calls[1].pc = "json"
    /\ calls[2].pc = "done"
    /\ calls[1].startTime < calls[2].startTime
    /\ Len(calls[2].response.products) > 0
    /\ calls[1].ocr # calls[2].ocr

\* the selections whose handleFileSelect has been called
Started == { h \in Selections : handlers[h].pc # "idle" }

\* how far a handler has got: each await it passes takes it nearer to its end
progress(h) ==
    CASE handlers[h].pc = "idle" -> 0
      [] handlers[h].pc = "convert" -> 1
      [] handlers[h].pc = "compress" -> 2
      [] handlers[h].pc = "extract" -> 3
      [] handlers[h].pc = "done" -> 4

\* C24: every invocation of handleFileSelect ends with isProcessing = false on
\* each exit path (extraction settled, HEIC conversion failed, compression failed
\* and the extraction settled after it); an invocation suspended at an await has
\* the step by which that await settles, every step of it takes it nearer to its
\* end, and the loading state never outlasts the invocations.
C24_HandlerEndsNotProcessing ==
    /\ [][\A h \in Selections :
             /\ (handlers[h].pc # "done" /\ handlers'[h].pc = "done") => ~isProcessing'
             /\ handlers'[h] # handlers[h] => progress(h)' > progress(h)]_vars
    /\ []((handlers # <<>> /\ \A h \in Selections : ~InFlight(h)) => ~isProcessing)
    /\ [](handlers # <<>> =>
             \A h \in Selections :
                 /\ handlers[h].pc = "convert" => ENABLED ConvertRejects(h)
                 /\ handlers[h].pc = "compress" => ENABLED CompressRejects(h)
                 /\ handlers[h].pc = "extract" => ENABLED ExtractionSettles(h))

\* a file above the size limit has been extracted with records, the one handler
\* that ran has ended, and the App is not loading
C24_Witness ==
    /\ handlers # <<>>
    /\ handlers[1].pc = "done"
    /\ handlers[1].result # NoResponse
    /\ Len(handlers[1].result.products) > 0
    /\ selectedFile # NoFile /\ selectedFile.id = 1 /\ selectedFile.sizeKB > maxSizeKB
    /\ Started = {1}
    /\ ~isProcessing

\* the products shown were submitted from ManualEntry
ManuallyEntered == extractionMeta # <<>> /\ extractionMeta.confidence = 10

\* some invocation ended in the conversion catch, without an extraction
ConversionFailed ==
    \E h \in Selections : handlers[h].pc = "done" /\ handlers[h].result = NoResponse

\* C25: under any interleaving of overlapping handleFileSelect invocations and
\* handleRemoveFile, isProcessing is true whenever an extraction is in flight, and
\* once every invocation has settled the products and the meta shown are those of
\* the extraction of the selected file, and are empty when no file is selected
\* (states after a manual entry or a failed conversion are left out).
C25_ShownResultIsOfSelectedFile ==
    handlers # <<>> =>
        /\ (\E h \in Selections : handlers[h].pc = "extract") => isProcessing
        /\ ((\A h \in Selections : ~InFlight(h)) /\ ~ManuallyEntered /\ ~ConversionFailed) =>
              IF selectedFile = NoFile
              THEN extractedProducts = <<>> /\ extractionMeta = <<>>
              ELSE LET result == handlers[selectedFile.id].result
                   IN /\ extractedProducts = result.products
                      /\ extractionMeta = [confidence |-> result.confidence,
                                           processingTime |-> result.processingTime]

\* the extraction of invocation h has just settled with zero records for the file
\* that is selected
ZeroRecordsFor(h) ==
    /\ lastSettled = h
    /\ Len(handlers[h].result.products) = 0
    /\ selectedFile # NoFile /\ selectedFile.id = h

\* C23: the ocr-failed-message with its manual-entry button is never rendered
\* while isProcessing is true or extractedProducts is non-empty, and whenever an
\* extraction for the selected file settles with zero records the App eventually
\* renders it, with isProcessing false, the file selected and no products.
C23_ZeroRecordsLeadToFallback ==
    /\ [](ocrFailedMessage => ~isProcessing /\ Len(extractedProducts) = 0)
    /\ \A h \in Selections :
          ZeroRecordsFor(h) ~>
              (ocrFailedMessage /\ selectedFile # NoFile /\ selectedFile.id = h)

====
